---- MODULE Spec2Model ----
(***************************************************************************)
(* Model of scripts/check_types_compat.py: the CI guard that fails once    *)
(* component-runtime has reached MIN_VERSION while the manifest still      *)
(* declares the greentic-types-compat shim.                                *)
(*                                                                         *)
(* Text (version strings, manifest text, printed versions) is modelled as  *)
(* sequences of one-character strings, so that str.split, int(), the `in`  *)
(* substring test and '.'.join(map(str, ...)) are computed, not assumed.   *)
(* The lock file is assumed to be well-formed TOML whose package entries   *)
(* are tables carrying a string `version`.                                 *)
(***************************************************************************)
EXTENDS Integers, Sequences, FiniteSets, TLC

\* ---- bounds -------------------------------------------------------------
\* Largest number of [[package]] entries in the lock file (Spec).
MaxPkgs == 2
\* Largest number of dot-separated segments of a generated version (SpecVersions).
MaxSegs == 4

\* ---- text helpers -------------------------------------------------------
Digits == <<"0", "1", "2", "3", "4", "5", "6", "7", "8", "9">>

IsDigit(c) == \E d \in 1..10 : Digits[d] = c

DigitVal(c) == (CHOOSE d \in 1..10 : Digits[d] = c) - 1

\* Value of a non-empty sequence of decimal digits.
RECURSIVE DigitsVal(_)
DigitsVal(s) ==
    IF s = <<>> THEN 0
    ELSE 10 * DigitsVal(SubSeq(s, 1, Len(s) - 1)) + DigitVal(s[Len(s)])

\* int(part): an optional sign followed by at least one decimal digit;
\* anything else raises ValueError (ok = FALSE).
py_int(part) ==
    LET signed == Len(part) > 0 /\ part[1] \in {"+", "-"}
        body   == IF signed THEN SubSeq(part, 2, Len(part)) ELSE part
        good   == Len(body) > 0 /\ \A i \in 1..Len(body) : IsDigit(body[i])
    IN  IF good
        THEN [ok |-> TRUE,
              val |-> IF signed /\ part[1] = "-" THEN 0 - DigitsVal(body)
                      ELSE DigitsVal(body)]
        ELSE [ok |-> FALSE, val |-> 0]

\* value.split("."): the pieces between the dots, empty pieces included.
RECURSIVE py_split(_)
py_split(s) ==
    LET dots == {i \in 1..Len(s) : s[i] = "."}
    IN  IF dots = {} THEN <<s>>
        ELSE LET k == CHOOSE i \in dots : \A j \in dots : i <= j
             IN  <<SubSeq(s, 1, k - 1)>> \o py_split(SubSeq(s, k + 1, Len(s)))

\* str(n) for an integer n.
RECURSIVE NatStr(_)
NatStr(n) == IF n < 10 THEN <<Digits[n + 1]>>
             ELSE NatStr(n \div 10) \o <<Digits[(n % 10) + 1]>>

py_str(n) == IF n < 0 THEN <<"-">> \o NatStr(0 - n) ELSE NatStr(n)

\* '.'.join(parts)
RECURSIVE py_join(_)
py_join(parts) ==
    IF Len(parts) = 0 THEN <<>>
    ELSE IF Len(parts) = 1 THEN parts[1]
    ELSE parts[1] \o <<".">> \o py_join(Tail(parts))

\* needle in haystack (contiguous substring).
py_in(needle, haystack) ==
    \E i \in 0..(Len(haystack) - Len(needle)) :
        \A j \in 1..Len(needle) : haystack[i + j] = needle[j]

\* ---- tuple ordering -----------------------------------------------------
\* Python's a < b on tuples of ints: the first differing element decides;
\* if there is none, the shorter tuple is the smaller one.
TupleLTPadded(a, b) ==
    LET n    == IF Len(a) < Len(b) THEN Len(b) ELSE Len(a)
        at(t, i) == IF i <= Len(t) THEN t[i] ELSE 0
        diff == {i \in 1..n : at(a, i) # at(b, i)}
    IN  IF diff = {} THEN FALSE
        ELSE LET k == CHOOSE i \in diff : \A j \in diff : i <= j
             IN  at(a, k) < at(b, k)

TupleLT(a, b) ==
    LET n    == IF Len(a) < Len(b) THEN Len(a) ELSE Len(b)
        diff == {i \in 1..n : a[i] # b[i]}
    IN  IF diff = {} THEN Len(a) < Len(b)
        ELSE LET k == CHOOSE i \in diff : \A j \in diff : i <= j
             IN  a[k] < b[k]

TupleGEStrict(a, b) == TupleLT(b, a)

TupleGE(a, b) == ~TupleLT(a, b)

\* ---- the script's constants and parse_version ---------------------------
MIN_VERSION == <<0, 4, 0>>

MARKER == <<"g", "r", "e", "e", "n", "t", "i", "c", "-", "t", "y", "p", "e", "s", "-", "c", "o", "m", "p", "a", "t">>

TARGET == "component-runtime"

\* parse_version(value): ok with the tuple of ints, or SystemExit (ok = FALSE)
\* whose message carries `value`.
parse_versionLenient(value) ==
    LET parts == py_split(value)
    IN  [ok |-> TRUE, tuple |-> [i \in 1..Len(parts) |-> py_int(parts[i]).val]]

parse_version(value) ==
    LET parts == py_split(value)
    IN  IF \A i \in 1..Len(parts) : py_int(parts[i]).ok
        THEN [ok |-> TRUE, tuple |-> [i \in 1..Len(parts) |-> py_int(parts[i]).val]]
        ELSE [ok |-> FALSE, tuple |-> <<>>]

\* ---- inputs: the two files of the working directory ---------------------
V_0_3_9   == <<"0", ".", "3", ".", "9">>
V_0_4_0   == <<"0", ".", "4", ".", "0">>
V_0_4_1   == <<"0", ".", "4", ".", "1">>
V_0_10_0  == <<"0", ".", "1", "0", ".", "0">>
V_0_4     == <<"0", ".", "4">>
V_0_4_0_1 == <<"0", ".", "4", ".", "0", ".", "1">>
V_0_x_0   == <<"0", ".", "x", ".", "0">>
V_0_4_    == <<"0", ".", "4", ".">>
V_0_4_0rc == <<"0", ".", "4", ".", "0", "-", "r", "c">>

\* Version strings of component-runtime records in Spec.
LockVersions ==
    {V_0_3_9, V_0_4_0, V_0_4_1, V_0_10_0, V_0_4, V_0_4_0_1, V_0_x_0, V_0_4_, V_0_4_0rc}

\* A [[package]] table: pkg.get("name") is None when hasName is FALSE.
Pkg(n, v) == [hasName |-> TRUE, name |-> n, version |-> v]

LockPackages ==
    {Pkg(TARGET, v) : v \in LockVersions}
        \cup {Pkg("serde", v) : v \in {V_0_4_1, V_0_x_0}}
        \cup {[hasName |-> FALSE, name |-> "", version |-> V_0_4_0]}

\* Parsed lock documents: the "package" key may be absent.
LockDocs ==
    {[hasPackage |-> FALSE, package |-> <<>>]}
        \cup {[hasPackage |-> TRUE, package |-> p] :
                p \in UNION {[1..n -> LockPackages] : n \in 0..MaxPkgs}}

ManifestPlain == <<"s", "e", "r", "d", "e", "=", "\"", "1", "\"">>
ManifestShim == <<"[", "d", "e", "p", "s", "]", "\n", "g", "r", "e", "e", "n", "t", "i", "c", "-", "t", "y", "p", "e", "s", "-", "c", "o", "m", "p", "a", "t", "=", "\"", "0", ".", "1", "\"">>
ManifestCommented == <<"#", " ", "g", "r", "e", "e", "n", "t", "i", "c", "-", "t", "y", "p", "e", "s", "-", "c", "o", "m", "p", "a", "t">>
ManifestTypesOnly == <<"g", "r", "e", "e", "n", "t", "i", "c", "-", "t", "y", "p", "e", "s", "=", "\"", "0", ".", "3", "\"">>
ManifestUnderscore == <<"g", "r", "e", "e", "n", "t", "i", "c", "_", "t", "y", "p", "e", "s", "_", "c", "o", "m", "p", "a", "t">>

\* Cargo.toml: missing/unreadable, or its text.
Manifests ==
    {[exists |-> FALSE, text |-> <<>>]}
        \cup {[exists |-> TRUE, text |-> t] :
                t \in {<<>>, ManifestPlain, ManifestShim, ManifestCommented,
                       ManifestTypesOnly, ManifestUnderscore}}

\* Generated version strings for SpecVersions: 1..MaxSegs segments.
Segments == {<<"0">>, <<"3">>, <<"4">>, <<"1", "0">>, <<"x">>}

GenVersions ==
    {py_join(t) : t \in UNION {[1..n -> Segments] : n \in 1..MaxSegs}}

\* ---- state --------------------------------------------------------------
VARIABLES
    lockExists,      \* Cargo.lock exists in the working directory
    lockDoc,         \* tomllib.loads(Cargo.lock)
    manifest,        \* Cargo.toml
    pc,              \* position in main() / the interpreter
    comp_versions,   \* main: comp_versions
    idx,             \* next element of comp_versions the max() generator parses
    version,         \* main: running maximum, then `version`
    compat_present,  \* main: compat_present
    stdout,          \* lines printed
    stderr,          \* what the interpreter wrote on abnormal termination
    retval,          \* value returned by main()
    exitStatus,      \* process exit status
    manifestRead,    \* cargo_toml.read_text() has been called
    parseCalls       \* number of parse_version calls

vars == <<lockExists, lockDoc, manifest, pc, comp_versions, idx, version,
          compat_present, stdout, stderr, retval, exitStatus, manifestRead,
          parseCalls>>

inputs == <<lockExists, lockDoc, manifest>>

NoStatus == 0 - 1

InitLocals ==
    /\ pc = "start"
    /\ comp_versions = <<>>
    /\ idx = 1
    /\ version = <<>>
    /\ compat_present = FALSE
    /\ stdout = <<>>
    /\ stderr = <<>>
    /\ retval = NoStatus
    /\ exitStatus = NoStatus
    /\ manifestRead = FALSE
    /\ parseCalls = 0

Init ==
    /\ lockExists \in BOOLEAN
    /\ lockDoc \in LockDocs
    /\ manifest \in Manifests
    /\ InitLocals

\* One-record lock files over the generated version strings.
InitVersions ==
    /\ lockExists \in BOOLEAN
    /\ lockDoc \in {[hasPackage |-> TRUE, package |-> <<Pkg(n, v)>>] :
                      n \in {TARGET, "serde"}, v \in GenVersions}
    /\ manifest \in {m \in Manifests : m.text \in {<<>>, ManifestShim}}
    /\ InitLocals

\* ---- main() -------------------------------------------------------------
\* A printed line: which message, and the version text interpolated into it.
Line(k, v) == [kind |-> k, version |-> v]

\* '.'.join(map(str, version))
FormatVersion(t) == py_join([i \in 1..Len(t) |-> py_str(t[i])])

\* [pkg["version"] for pkg in packages if pkg.get("name") == "component-runtime"]
RECURSIVE MatchingVersionsAll(_)
MatchingVersionsAll(packages) ==
    IF packages = <<>> THEN <<>>
    ELSE <<Head(packages).version>> \o MatchingVersionsAll(Tail(packages))

RECURSIVE MatchingVersions(_)
MatchingVersions(packages) ==
    IF packages = <<>> THEN <<>>
    ELSE (IF Head(packages).hasName /\ Head(packages).name = TARGET
          THEN <<Head(packages).version>> ELSE <<>>)
         \o MatchingVersions(Tail(packages))

\* if not lock_path.exists(): print(...); return 0
CheckLockFails ==
    /\ pc = "start"
    /\ IF ~lockExists
       THEN /\ stdout' = Append(stdout, Line("lock-not-found", <<>>))
            /\ retval' = 1
            /\ pc' = "returned"
       ELSE /\ pc' = "load"
            /\ UNCHANGED <<stdout, retval>>
    /\ UNCHANGED <<inputs, comp_versions, idx, version, compat_present, stderr,
                   exitStatus, manifestRead, parseCalls>>

CheckLock ==
    /\ pc = "start"
    /\ IF ~lockExists
       THEN /\ stdout' = Append(stdout, Line("lock-not-found", <<>>))
            /\ retval' = 0
            /\ pc' = "returned"
       ELSE /\ pc' = "load"
            /\ UNCHANGED <<stdout, retval>>
    /\ UNCHANGED <<inputs, comp_versions, idx, version, compat_present, stderr,
                   exitStatus, manifestRead, parseCalls>>

\* data = tomllib.loads(...); packages = data.get("package", []);
\* comp_versions = [...]
LoadLockUnfiltered ==
    /\ pc = "load"
    /\ comp_versions' = MatchingVersionsAll(lockDoc.package)
    /\ pc' = "check_empty"
    /\ UNCHANGED <<inputs, idx, version, compat_present, stdout, stderr, retval,
                   exitStatus, manifestRead, parseCalls>>

LoadLock ==
    /\ pc = "load"
    /\ LET packages == IF lockDoc.hasPackage THEN lockDoc.package ELSE <<>>
       IN  comp_versions' = MatchingVersions(packages)
    /\ pc' = "check_empty"
    /\ UNCHANGED <<inputs, idx, version, compat_present, stdout, stderr, retval,
                   exitStatus, manifestRead, parseCalls>>

\* if not comp_versions: print(...); return 0
CheckVersionsSilent ==
    /\ pc = "check_empty"
    /\ IF comp_versions = <<>>
       THEN /\ retval' = 0
            /\ pc' = "returned"
       ELSE /\ pc' = "parse"
            /\ UNCHANGED retval
    /\ UNCHANGED <<inputs, comp_versions, idx, version, compat_present, stdout,
                   stderr, exitStatus, manifestRead, parseCalls>>

CheckVersions ==
    /\ pc = "check_empty"
    /\ IF comp_versions = <<>>
       THEN /\ stdout' = Append(stdout, Line("dependency-not-in-lock", <<>>))
            /\ retval' = 0
            /\ pc' = "returned"
       ELSE /\ pc' = "parse"
            /\ UNCHANGED <<stdout, retval>>
    /\ UNCHANGED <<inputs, comp_versions, idx, version, compat_present, stderr,
                   exitStatus, manifestRead, parseCalls>>

\* version = max(parse_version(ver) for ver in comp_versions): one step of the
\* generator.  A SystemExit raised by parse_version leaves main(); otherwise
\* max() keeps the first item, then any item greater than the one it holds.
ParseNextKeepLast ==
    /\ pc = "parse"
    /\ LET r == parse_version(comp_versions[idx])
       IN  /\ parseCalls' = parseCalls + 1
           /\ IF ~r.ok
              THEN /\ stderr' = Append(stderr, [kind |-> "SystemExit",
                                                value |-> comp_versions[idx]])
                   /\ pc' = "raised"
                   /\ UNCHANGED <<idx, version>>
              ELSE /\ version' = r.tuple
                   /\ idx' = idx + 1
                   /\ pc' = IF idx = Len(comp_versions) THEN "read_manifest"
                            ELSE "parse"
                   /\ UNCHANGED stderr
    /\ UNCHANGED <<inputs, comp_versions, compat_present, stdout, retval,
                   exitStatus, manifestRead>>

ParseNext ==
    /\ pc = "parse"
    /\ LET r == parse_version(comp_versions[idx])
       IN  /\ parseCalls' = parseCalls + 1
           /\ IF ~r.ok
              THEN /\ stderr' = Append(stderr, [kind |-> "SystemExit",
                                                value |-> comp_versions[idx]])
                   /\ pc' = "raised"
                   /\ UNCHANGED <<idx, version>>
              ELSE /\ version' = IF idx = 1 \/ TupleLT(version, r.tuple)
                                 THEN r.tuple ELSE version
                   /\ idx' = idx + 1
                   /\ pc' = IF idx = Len(comp_versions) THEN "read_manifest"
                            ELSE "parse"
                   /\ UNCHANGED stderr
    /\ UNCHANGED <<inputs, comp_versions, compat_present, stdout, retval,
                   exitStatus, manifestRead>>

\* compat_present = "greentic-types-compat" in cargo_toml.read_text()
\* read_text() raises OSError when the file is missing or unreadable.
ReadManifestTolerant ==
    /\ pc = "read_manifest"
    /\ manifestRead' = TRUE
    /\ compat_present' = (manifest.exists /\ py_in(MARKER, manifest.text))
    /\ pc' = "decide"
    /\ UNCHANGED <<inputs, comp_versions, idx, version, stdout, stderr, retval,
                   exitStatus, parseCalls>>

ReadManifest ==
    /\ pc = "read_manifest"
    /\ manifestRead' = TRUE
    /\ IF ~manifest.exists
       THEN /\ stderr' = Append(stderr, [kind |-> "OSError", value |-> <<>>])
            /\ pc' = "raised"
            /\ UNCHANGED compat_present
       ELSE /\ compat_present' = py_in(MARKER, manifest.text)
            /\ pc' = "decide"
            /\ UNCHANGED stderr
    /\ UNCHANGED <<inputs, comp_versions, idx, version, stdout, retval,
                   exitStatus, parseCalls>>

\* if version >= MIN_VERSION and compat_present: print(...); return 1
\* return 0
DecideOr ==
    /\ pc = "decide"
    /\ IF TupleGE(version, MIN_VERSION) \/ compat_present
       THEN /\ stdout' = Append(stdout, Line("drop-shim", FormatVersion(version)))
            /\ retval' = 1
       ELSE /\ retval' = 0
            /\ UNCHANGED stdout
    /\ pc' = "returned"
    /\ UNCHANGED <<inputs, comp_versions, idx, version, compat_present, stderr,
                   exitStatus, manifestRead, parseCalls>>

DecideIgnoreMarker ==
    /\ pc = "decide"
    /\ IF TupleGE(version, MIN_VERSION)
       THEN /\ stdout' = Append(stdout, Line("drop-shim", FormatVersion(version)))
            /\ retval' = 1
       ELSE /\ retval' = 0
            /\ UNCHANGED stdout
    /\ pc' = "returned"
    /\ UNCHANGED <<inputs, comp_versions, idx, version, compat_present, stderr,
                   exitStatus, manifestRead, parseCalls>>

Decide ==
    /\ pc = "decide"
    /\ IF TupleGE(version, MIN_VERSION) /\ compat_present
       THEN /\ stdout' = Append(stdout, Line("drop-shim", FormatVersion(version)))
            /\ retval' = 1
       ELSE /\ retval' = 0
            /\ UNCHANGED stdout
    /\ pc' = "returned"
    /\ UNCHANGED <<inputs, comp_versions, idx, version, compat_present, stderr,
                   exitStatus, manifestRead, parseCalls>>

\* sys.exit(main()): the process status is the value main() returned.
ExitNormal ==
    /\ pc = "returned"
    /\ exitStatus' = retval
    /\ pc' = "exited"
    /\ UNCHANGED <<inputs, comp_versions, idx, version, compat_present, stdout,
                   stderr, retval, manifestRead, parseCalls>>

\* An exception left main(): SystemExit carrying a message, or an uncaught
\* OSError.  The interpreter writes the message or traceback to stderr and
\* the process ends with status 1.
ExitAbnormal ==
    /\ pc = "raised"
    /\ exitStatus' = 1
    /\ pc' = "aborted"
    /\ UNCHANGED <<inputs, comp_versions, idx, version, compat_present, stdout,
                   stderr, retval, manifestRead, parseCalls>>

Next ==
    \/ CheckLock
    \/ LoadLock
    \/ CheckVersions
    \/ ParseNext
    \/ ReadManifest
    \/ Decide
    \/ ExitNormal
    \/ ExitAbnormal

Spec == Init /\ [][Next]_vars

SpecVersions == InitVersions /\ [][Next]_vars

\* ---- vocabulary of the properties ---------------------------------------
Terminated == pc \in {"exited", "aborted"}

\* Version strings of the component-runtime records, in lock-file order.
RECURSIVE Watched(_)
Watched(packages) ==
    IF packages = <<>> THEN <<>>
    ELSE IF Head(packages).hasName /\ Head(packages).name = "component-runtime"
         THEN <<Head(packages).version>> \o Watched(Tail(packages))
         ELSE Watched(Tail(packages))

WatchedList == IF lockDoc.hasPackage THEN Watched(lockDoc.package) ELSE <<>>

WatchedSet == {WatchedList[i] : i \in 1..Len(WatchedList)}

\* A version string all of whose dot-separated segments are integers.
Numeric(v) == \A i \in 1..Len(py_split(v)) : py_int(py_split(v)[i]).ok

TupleOf(v) == [i \in 1..Len(py_split(v)) |-> py_int(py_split(v)[i]).val]

AllParse == \A v \in WatchedSet : Numeric(v)

\* a >= b, lexicographic element-wise, a proper prefix below the longer tuple.
RECURSIVE LexGE(_, _)
LexGE(a, b) ==
    IF b = <<>> THEN TRUE
    ELSE IF a = <<>> THEN FALSE
    ELSE IF a[1] # b[1] THEN a[1] > b[1]
    ELSE LexGE(Tail(a), Tail(b))

\* a >= b, element-wise with missing trailing segments read as zero.
RECURSIVE PaddedGE(_, _)
PaddedGE(a, b) ==
    IF a = <<>> /\ b = <<>> THEN TRUE
    ELSE LET x == IF a = <<>> THEN 0 ELSE a[1]
             y == IF b = <<>> THEN 0 ELSE b[1]
         IN  IF x # y THEN x > y
             ELSE PaddedGE(IF a = <<>> THEN a ELSE Tail(a),
                           IF b = <<>> THEN b ELSE Tail(b))

Threshold == <<0, 4, 0>>

\* Some watched record is at or above the threshold (so the maximum is).
MaxAtOrAbove == \E v \in WatchedSet : LexGE(TupleOf(v), Threshold)

\* The greatest of the parsed tuples.
MaxTuple ==
    CHOOSE m \in {TupleOf(v) : v \in WatchedSet} :
        \A v \in WatchedSet : LexGE(m, TupleOf(v))

MarkerText == <<"g", "r", "e", "e", "n", "t", "i", "c", "-", "t", "y", "p", "e", "s", "-", "c", "o", "m", "p", "a", "t">>

HasMarker ==
    /\ manifest.exists
    /\ \E k \in 1..Len(manifest.text) :
          /\ k + Len(MarkerText) - 1 <= Len(manifest.text)
          /\ SubSeq(manifest.text, k, k + Len(MarkerText) - 1) = MarkerText

\* The run reached the full check: lock found, a record found, all parsed.
FullCheck == lockExists /\ WatchedList # <<>> /\ AllParse

\* ---- C1 -----------------------------------------------------------------
\* C1: when Cargo.lock does not exist the run prints the 'skipping' line and
\* ends with exit status 0 whatever the manifest is (marker, no marker,
\* missing); the manifest is never read and no version is parsed.
C1_LockAbsentExitsZero ==
    ~lockExists =>
        /\ ~manifestRead
        /\ parseCalls = 0
        /\ Terminated =>
              /\ pc = "exited"
              /\ exitStatus = 0
              /\ stdout = <<Line("lock-not-found", <<>>)>>
              /\ stderr = <<>>

C1_Witness ==
    /\ pc = "exited"
    /\ ~lockExists
    /\ ~manifest.exists
    /\ WatchedList # <<>>

\* ---- C2 -----------------------------------------------------------------
\* C2: when Cargo.lock exists and lists no component-runtime record (the
\* package collection absent or empty, or only other packages), the run
\* prints the informational line and ends with exit status 0; no version is
\* parsed and the manifest is not read.
C2_DependencyAbsentExitsZero ==
    (lockExists /\ WatchedList = <<>>) =>
        /\ ~manifestRead
        /\ parseCalls = 0
        /\ Terminated =>
              /\ pc = "exited"
              /\ exitStatus = 0
              /\ stdout = <<Line("dependency-not-in-lock", <<>>)>>
              /\ stderr = <<>>

C2_Witness ==
    /\ pc = "exited"
    /\ lockExists
    /\ lockDoc.hasPackage
    /\ Len(lockDoc.package) >= 1
    /\ WatchedList = <<>>
    /\ \E i \in 1..Len(lockDoc.package) : ~Numeric(lockDoc.package[i].version)
    /\ ~manifest.exists

\* ---- C3 -----------------------------------------------------------------
\* C3: when the maximum parsed component-runtime version is at or above
\* (0,4,0) and the manifest text contains the marker, the run ends with exit
\* status 1 and its one printed line is the drop-the-shim message naming the
\* selected (maximum) version.
C3_ObsoleteShimExitsOne ==
    (Terminated /\ FullCheck /\ MaxAtOrAbove /\ HasMarker) =>
        /\ pc = "exited"
        /\ exitStatus = 1
        /\ Len(stdout) = 1
        /\ stdout[1].kind = "drop-shim"
        /\ Numeric(stdout[1].version)
        /\ TupleOf(stdout[1].version) = MaxTuple

C3_Witness ==
    /\ pc = "exited"
    /\ exitStatus = 1
    /\ WatchedList = <<V_0_4_0>>
    /\ manifest.text = ManifestShim
    /\ stdout = <<Line("drop-shim", V_0_4_0)>>

\* ---- C4 -----------------------------------------------------------------
\* C4: when all component-runtime versions parse and the manifest is
\* readable, the run ends with exit status 0 if the maximum version is below
\* (0,4,0), marker or not, or if the marker is absent, whatever the version.
C4_NothingToDoExitsZero ==
    (Terminated /\ FullCheck /\ manifest.exists /\ (~MaxAtOrAbove \/ ~HasMarker)) =>
        /\ pc = "exited"
        /\ exitStatus = 0

C4_Witness ==
    /\ pc = "exited"
    /\ exitStatus = 0
    /\ FullCheck
    /\ ~MaxAtOrAbove
    /\ HasMarker

\* ---- C5 -----------------------------------------------------------------
\* C5 (as stated): a run that ends with exit status 1 has its maximum
\* component-runtime version at or above (0,4,0) and the marker in the
\* manifest, and an abnormal termination ends with a status other than 1.
C5_StatusOneMeansObsoleteShim ==
    /\ (Terminated /\ exitStatus = 1) => (FullCheck /\ MaxAtOrAbove /\ HasMarker)
    /\ pc = "aborted" => exitStatus # 1

\* C5 (amended): a run in which main() returns 1 has its maximum version at
\* or above (0,4,0) and the marker in the manifest; an abnormal termination
\* (SystemExit with a message, unreadable manifest) also ends with status 1,
\* and differs only in having written to stderr and nothing to stdout.
C5_ReturnOneMeansObsoleteShim ==
    /\ (pc = "exited" /\ exitStatus = 1) =>
          /\ FullCheck /\ MaxAtOrAbove /\ HasMarker
          /\ stderr = <<>>
          /\ Len(stdout) = 1
    /\ pc = "aborted" =>
          /\ exitStatus = 1
          /\ stdout = <<>>
          /\ Len(stderr) = 1
          /\ stderr[1].kind \in {"SystemExit", "OSError"}
          /\ ~(FullCheck /\ HasMarker)

C5_Witness ==
    /\ pc = "aborted"
    /\ exitStatus = 1
    /\ stderr = <<[kind |-> "SystemExit", value |-> V_0_x_0]>>
    /\ ~MaxAtOrAbove

\* ---- C6 -----------------------------------------------------------------
\* C6: when some component-runtime record has a version with a non-numeric
\* segment, the run ends abnormally with a non-zero status and a message
\* carrying an offending value (the first one in lock-file order), wherever
\* the bad record stands, whatever the other records are, and whatever the
\* manifest is: the manifest is not read and nothing is printed.
FirstBad ==
    LET bad == {i \in 1..Len(WatchedList) : ~Numeric(WatchedList[i])}
    IN  WatchedList[CHOOSE i \in bad : \A j \in bad : i <= j]

C6_BadVersionAborts ==
    (lockExists /\ ~AllParse) =>
        /\ ~manifestRead
        /\ pc \notin {"returned", "exited"}
        /\ stdout = <<>>
        /\ Terminated =>
              /\ pc = "aborted"
              /\ exitStatus # 0
              /\ stderr = <<[kind |-> "SystemExit", value |-> FirstBad]>>

C6_Witness ==
    /\ pc = "aborted"
    /\ Len(WatchedList) >= 2
    /\ Numeric(WatchedList[1])
    /\ ~Numeric(WatchedList[2])
    /\ ~manifest.exists

\* ---- C7 -----------------------------------------------------------------
\* C7: the decision is taken on the maximum of the parsed tuples: the exit
\* status depends on the component-runtime records only through the set of
\* their versions (so it is the same for every ordering of the records), and
\* one record at or above (0,4,0) is enough for exit status 1 when the marker
\* is present, even if other records are below it.
SetOutcome ==
    IF ~lockExists \/ WatchedSet = {} THEN 0
    ELSE IF ~AllParse THEN 1
    ELSE IF ~manifest.exists THEN 1
    ELSE IF MaxAtOrAbove /\ HasMarker THEN 1
    ELSE 0

C7_DecisionOnMaximum ==
    /\ Terminated => exitStatus = SetOutcome
    /\ pc \in {"read_manifest", "decide", "returned"} /\ FullCheck =>
          version = MaxTuple

C7_Witness ==
    /\ pc = "exited"
    /\ exitStatus = 1
    /\ WatchedList = <<V_0_4_1, V_0_3_9>>
    /\ HasMarker
    /\ stdout = <<Line("drop-shim", V_0_4_1)>>

\* ---- C8 -----------------------------------------------------------------
\* The one component-runtime record of a SpecVersions lock file.
OneNumeric ==
    /\ lockExists
    /\ Len(WatchedList) = 1
    /\ Numeric(WatchedList[1])

\* C8 (as stated): for a version string of dot-separated non-negative
\* integers the comparison with (0,4,0) behaves as if missing trailing
\* segments were zero: with the marker present the run ends with status 1
\* exactly when the zero-padded version is at or above the threshold
\* ('0.4' like '0.4.0').
C8_PaddedComparison ==
    (pc = "exited" /\ OneNumeric /\ HasMarker) =>
        (exitStatus = 1 <=> PaddedGE(TupleOf(WatchedList[1]), Threshold))

\* C8 (amended): the comparison with (0,4,0) is lexicographic element-wise
\* with a proper prefix ordered below the longer tuple.  It agrees with
\* zero-padding for every version except '0.4' (and other spellings of
\* (0,4)), which is below the threshold unlike '0.4.0'; '0.4.0.1' is above.
C8_PrefixComparison ==
    (pc = "exited" /\ OneNumeric /\ HasMarker) =>
        LET t == TupleOf(WatchedList[1])
        IN  /\ exitStatus = 1 <=> LexGE(t, Threshold)
            /\ t # <<0, 4>> => (exitStatus = 1 <=> PaddedGE(t, Threshold))
            /\ t = <<0, 4>> => exitStatus = 0
            /\ t = <<0, 4, 0, 1>> => exitStatus = 1

C8_Witness ==
    /\ pc = "exited"
    /\ exitStatus = 0
    /\ WatchedList = <<V_0_4>>
    /\ HasMarker

\* ---- C9 -----------------------------------------------------------------
\* C9 (as stated): every run that ends normally has printed at least one line.
C9_AlwaysPrints == pc = "exited" => Len(stdout) >= 1

\* C9 (amended): a run that ends normally with status 1, or with status 0
\* through an early exit (lock absent, dependency absent), has printed exactly
\* one message; the full check that finds nothing to do ends with status 0
\* having printed nothing.
C9_PrintsUnlessNothingToDo ==
    pc = "exited" =>
        /\ (exitStatus = 1 \/ ~lockExists \/ WatchedList = <<>>) => Len(stdout) = 1
        /\ (exitStatus = 0 /\ lockExists /\ WatchedList # <<>>) => stdout = <<>>

C9_Witness ==
    /\ pc = "exited"
    /\ exitStatus = 0
    /\ FullCheck
    /\ MaxAtOrAbove
    /\ ~HasMarker
    /\ stdout = <<>>

\* ---- C10 ----------------------------------------------------------------
\* C10: the manifest is read only after the lock file was found, a
\* component-runtime record was found and every matching version parsed; in
\* exactly those runs a missing manifest ends the run abnormally (never with
\* status 0), also when the maximum version is below the threshold; in every
\* other run the manifest is never read.
C10_ManifestReadLast ==
    /\ manifestRead => (FullCheck /\ parseCalls = Len(WatchedList))
    /\ (Terminated /\ FullCheck) => manifestRead
    /\ (Terminated /\ FullCheck /\ ~manifest.exists) =>
          /\ pc = "aborted"
          /\ exitStatus # 0
          /\ stderr = <<[kind |-> "OSError", value |-> <<>>]>>
    /\ (Terminated /\ ~FullCheck) => ~manifestRead

C10_Witness ==
    /\ pc = "aborted"
    /\ FullCheck
    /\ ~MaxAtOrAbove
    /\ ~manifest.exists
    /\ manifestRead

====
